---- MODULE Spec2Model ----
(***************************************************************************)
(* Model of src/wrapper.c: the supervisor that forks /ATO/runner, arms a   *)
(* one-shot deadline, forwards signals to the monitored child, reaps it   *)
(* with a waitpid/sigsuspend loop and writes one JSON record to a caller- *)
(* supplied descriptor.                                                    *)
(*                                                                         *)
(* Three parties take steps: the supervisor's main line (one action per    *)
(* statement group of main), the kernel/environment (timer expiry,        *)
(* external signals, signal delivery, which runs a handler atomically),   *)
(* and the child (pre-exec steps, then the executed program).             *)
(***************************************************************************)
EXTENDS Integers, Sequences, FiniteSets, TLC

(***************************************************************************)
(* Signal numbers (Linux), as used by wrapper.c.                            *)
(***************************************************************************)
SIGHUP == 1
SIGINT == 2
SIGQUIT == 3
SIGKILL == 9
SIGUSR1 == 10
SIGSEGV == 11
SIGALRM == 14
SIGTERM == 15
SIGCHLD == 17
SIGSTOP == 19
SIGTTIN == 21
SIGTTOU == 22

MAX_TIMEOUT_SECS == 60

\* static int term_signal = SIGKILL; never reassigned.
term_signal == SIGKILL

\* static bool foreground; zero-initialised, never reassigned.
foreground == FALSE

\* errno left by fcntl(fd, F_GETFD) on a descriptor that is not open.
EBADF == 9

\* Number of DPRINTF calls that make up one record, "{" to "}\n".
NFields == 15

(***************************************************************************)
(* Bounds of the model.                                                     *)
(***************************************************************************)
\* signals other processes send to the supervisor in one run (termination-
\* class signals and SIGUSR1 directives together)
MaxSig == 1

(***************************************************************************)
(* C strings: a sequence of character codes; the terminating NUL is read   *)
(* past the end.                                                            *)
(***************************************************************************)
ZeroChar == 48
OneChar == 49
NineChar == 57

CharAt(s, i) == IF i <= Len(s) THEN s[i] ELSE 0

\* The string made of the decimal digits ds.
Dec(ds) == [i \in 1..Len(ds) |-> ZeroChar + ds[i]]

(***************************************************************************)
(* 32-bit int arithmetic of parse_int.  The accumulator is kept as two     *)
(* 16-bit limbs so that value * 10 + digit is computed modulo 2^32 exactly *)
(* as two's-complement hardware does.                                      *)
(***************************************************************************)
Limb == 65536
HalfLimb == 32768

\* value *= 10; value += d, on the limbs; ovf records that the mathematical
\* result left the range of int (signed overflow, undefined in C).
MulAdd(v, d) ==
    LET lo == v.lo * 10 + d
        hi == v.hi * 10 + (lo \div Limb)
    IN  [lo |-> lo % Limb, hi |-> hi % Limb,
         ovf |-> v.ovf \/ v.hi >= HalfLimb \/ hi >= HalfLimb]

\* The int the limbs denote.
ToInt(v) == IF v.hi >= HalfLimb THEN (v.hi - Limb) * Limb + v.lo
            ELSE v.hi * Limb + v.lo

RECURSIVE ParseLoop(_, _, _)
ParseLoop(s, i, v) ==
    LET c == CharAt(s, i) IN
    IF c = 0 THEN [ok |-> TRUE, value |-> ToInt(v), ovf |-> v.ovf]
    ELSE IF c < ZeroChar \/ c > NineChar THEN [ok |-> FALSE, value |-> 0, ovf |-> v.ovf]
    ELSE ParseLoop(s, i + 1, MulAdd(v, c - ZeroChar))

\* parse_int: ok = FALSE is exit(2).
parse_int(s) ==
    IF CharAt(s, 1) < OneChar THEN [ok |-> FALSE, value |-> 0, ovf |-> FALSE]
    ELSE ParseLoop(s, 1, [lo |-> 0, hi |-> 0, ovf |-> FALSE])

\* The outcomes of parse_int(s) a build can produce: the value (or exit(2)),
\* and, when the accumulator overflowed, also a trap (signed overflow is
\* undefined: wrap-around or an abort under trapping arithmetic).
SIGABRT == 6
ParseOutcomes(s) ==
    LET r == parse_int(s) IN
    {IF r.ok THEN [kind |-> "value", val |-> r.value]
             ELSE [kind |-> "exit", val |-> 2]}
    \cup (IF r.ovf THEN {[kind |-> "signal", val |-> SIGABRT]} ELSE {})

(***************************************************************************)
(* Inputs.                                                                  *)
(***************************************************************************)
\* Descriptors open in the caller.
OpenFds == {0, 1, 2, 5}

\* argv[1] candidates: "5", "7", "a", "", "0", and 2^32 + 7.
FdArgs == {Dec(<<5>>), Dec(<<7>>), <<97>>, <<>>, Dec(<<0>>),
           Dec(<<4, 2, 9, 4, 9, 6, 7, 3, 0, 3>>)}

\* argv[2] candidates: "1", "61", "0", "07", "6a", "-1", "",
\* 2^32 + 1, 2^31, 99999999999.
TimeoutArgs == {Dec(<<1>>), Dec(<<6, 1>>), Dec(<<0>>),
                Dec(<<0, 7>>), <<54, 97>>, <<45, 49>>, <<>>,
                Dec(<<4, 2, 9, 4, 9, 6, 7, 2, 9, 7>>),
                Dec(<<2, 1, 4, 7, 4, 8, 3, 6, 4, 8>>),
                Dec(<<9, 9, 9, 9, 9, 9, 9, 9, 9, 9, 9>>)}

\* Argument vectors (without argv[0]): one, two or three arguments.
ArgVectors == {<<Dec(<<5>>)>>}
              \cup {<<a, Dec(<<1>>)>> : a \in FdArgs}
              \cup {<<Dec(<<5>>), b>> : b \in TimeoutArgs}
              \cup {<<Dec(<<5>>), Dec(<<1>>), Dec(<<1>>)>>}

\* Exit codes of the executed program.
ExitCodes == {0, 1, 255}

\* Payloads of the SIGUSR1 directive.
Payloads == {0, SIGKILL, SIGTERM}

\* Termination-class signals other processes send to the supervisor.
ExtSigs == {SIGHUP, SIGINT, SIGQUIT, SIGTERM, SIGKILL}

\* Signals by which the executed program terminates itself.
FaultSigs == {SIGSEGV}

AllSigs == {SIGHUP, SIGINT, SIGQUIT, SIGKILL, SIGUSR1, SIGSEGV, SIGALRM,
            SIGTERM, SIGCHLD, SIGSTOP, SIGTTIN, SIGTTOU}

\* pid fork() returns in the parent.
ChildPid == 4242

(***************************************************************************)
(* <sys/wait.h>: the encoding of a wait status and the macros main uses.   *)
(***************************************************************************)
W_EXITCODE(c) == (c % 256) * 256
W_TERMSIG(s, core) == s + (IF core THEN 128 ELSE 0)
W_STOPCODE(s) == s * 256 + 127

WTERMSIG(st) == st % 128
WIFEXITED(st) == WTERMSIG(st) = 0
\* The wait status itself, without the extraction of the exit code.
WEXITSTATUS_Raw(st) == st
WEXITSTATUS(st) == (st \div 256) % 256
WIFSIGNALED(st) == WTERMSIG(st) # 0 /\ WTERMSIG(st) # 127
\* A test of the core flag that never finds it.
WCOREDUMP_Never(st) == FALSE
WCOREDUMP(st) == (st \div 128) % 2 = 1

(***************************************************************************)
(* Kernel facts about signals.                                              *)
(***************************************************************************)
DefaultAction(s) ==
    IF s \in {SIGCHLD} THEN "ign"
    ELSE IF s \in {SIGSTOP, SIGTTIN, SIGTTOU} THEN "stop"
    ELSE IF s \in {SIGQUIT, SIGSEGV, SIGABRT} THEN "core"
    ELSE "term"

\* SIGKILL and SIGSTOP can be neither caught, ignored nor blocked.
Uncatchable == {SIGKILL, SIGSTOP}

\* sigaction(s, {handler h}, NULL) / signal(s, h): fails for SIGKILL/SIGSTOP.
SigAction(d, s, h) == IF s \in Uncatchable THEN d ELSE [d EXCEPT ![s] = h]

\* Processes kill(where, ...) reaches, given that the supervisor leads the
\* group that the child and its descendants inherit.
Targets(where) ==
    IF where = 0 THEN {"self", "child", "desc"}
    ELSE IF where = -1 THEN {"child", "desc"}
    ELSE IF where = ChildPid THEN {"child"}
    ELSE {}

VARIABLES
    argv,           \* arguments after argv[0]
    pc,             \* position of the supervisor in main
    exited,         \* how the supervisor ended: [kind, val, at]
    fd, timeout_secs, own_group,
    timed_out, monitored_pid,
    forkret,        \* value returned by fork(), before it is assigned
    disp,           \* disposition of each signal in the supervisor
    blocked,        \* signal mask of the supervisor
    cleanup_set,    \* mask saved by block_cleanup_and_chld
    pending,        \* signals pending for the supervisor
    timer,          \* "off", "armed", "fired"
    woken,          \* a handler has run inside the current sigsuspend
    wait_result, status, status_type,
    rec,            \* fields written to fd so far
    cpc,            \* position / state of the child
    cstatus,        \* wait status of the child once it has one
    cend,           \* history: how the child terminated: [kind, val, core]
    cfd,            \* the child still holds the output descriptor
    desc,           \* a descendant of the child: "none", "alive", "dead"
    sent,           \* history: kills performed by the supervisor's handlers
    expiredLive,    \* history: the timer expired while the child was running
    execd,          \* history: execlp succeeded in the child
    nExt, nUsr1     \* history: signals sent to the supervisor so far

mainVars == <<fd, timeout_secs, own_group, forkret, wait_result, status, status_type, rec>>
globVars == <<timed_out, monitored_pid>>
sigVars == <<disp, blocked, cleanup_set, pending, timer, woken>>
childVars == <<cpc, cstatus, cend, cfd, desc>>
histVars == <<sent, expiredLive, execd, nExt, nUsr1>>
vars == <<argv, pc, exited, mainVars, globVars, sigVars, childVars, histVars>>

Alive == exited.kind = "none"

\* Child states in which the child process runs (is neither terminated nor absent).
LiveStates == {"c_signal", "c_close", "c_exec", "running", "tstopped"}
PreExec == {"c_signal", "c_close", "c_exec"}

Init ==
    /\ argv \in ArgVectors
    /\ pc = "argc"
    /\ exited = [kind |-> "none", val |-> 0, at |-> "none"]
    /\ fd = 0
    /\ timeout_secs = MAX_TIMEOUT_SECS
    /\ own_group = FALSE
    /\ timed_out = 0
    /\ monitored_pid = 0
    /\ forkret = 0
    /\ disp = [s \in AllSigs |-> "dfl"]
    /\ blocked = {}
    /\ cleanup_set = {}
    /\ pending = {}
    /\ timer = "off"
    /\ woken = FALSE
    /\ wait_result = 0
    /\ status = 0
    /\ status_type = "unknown"
    /\ rec = <<>>
    /\ cpc = "none"
    /\ cstatus = 0
    /\ cend = [kind |-> "none", val |-> 0, core |-> FALSE]
    /\ cfd = FALSE
    /\ desc = "none"
    /\ sent = {}
    /\ expiredLive = FALSE
    /\ execd = FALSE
    /\ nExt = 0
    /\ nUsr1 = 0

(***************************************************************************)
(* main, before fork.                                                       *)
(***************************************************************************)
\* return v / exit(v) from the main line, at the current position.
Exit(v) == /\ exited' = [kind |-> "exit", val |-> v, at |-> pc]
           /\ pc' = "done"

\* _exit(v) from a signal handler.
HandlerExit(v) == /\ exited' = [kind |-> "_exit", val |-> v, at |-> pc]
                  /\ pc' = "done"

\* The supervisor is terminated by signal s.
Die(s) == /\ exited' = [kind |-> "signal", val |-> s, at |-> pc]
          /\ pc' = "done"

Goto(l) == pc' = l /\ UNCHANGED exited

\* if (argc != 3) return 2;
CheckArgc ==
    /\ Alive /\ pc = "argc"
    /\ IF Len(argv) + 1 # 3 THEN Exit(2) ELSE Goto("parse_fd")
    /\ UNCHANGED <<argv, mainVars, globVars, sigVars, childVars, histVars>>

\* int fd = parse_int(argv[1]);
ParseFd ==
    /\ Alive /\ pc = "parse_fd"
    /\ \E o \in ParseOutcomes(argv[1]) :
         CASE o.kind = "value" -> fd' = o.val /\ Goto("parse_timeout")
           [] o.kind = "exit" -> fd' = fd /\ Exit(o.val)
           [] o.kind = "signal" -> fd' = fd /\ Die(o.val)
    /\ UNCHANGED <<argv, timeout_secs, own_group, forkret, wait_result, status,
                   status_type, rec, globVars, sigVars, childVars, histVars>>

\* timeout_secs = parse_int(argv[2]);
ParseTimeout ==
    /\ Alive /\ pc = "parse_timeout"
    /\ \E o \in ParseOutcomes(argv[2]) :
         CASE o.kind = "value" -> timeout_secs' = o.val /\ Goto("range")
           [] o.kind = "exit" -> timeout_secs' = timeout_secs /\ Exit(o.val)
           [] o.kind = "signal" -> timeout_secs' = timeout_secs /\ Die(o.val)
    /\ UNCHANGED <<argv, fd, own_group, forkret, wait_result, status,
                   status_type, rec, globVars, sigVars, childVars, histVars>>

\* if (timeout_secs < 1 || timeout_secs > MAX_TIMEOUT_SECS) return 2;
CheckRange ==
    /\ Alive /\ pc = "range"
    /\ IF timeout_secs < 1 \/ timeout_secs > MAX_TIMEOUT_SECS
       THEN Exit(2) ELSE Goto("fcntl")
    /\ UNCHANGED <<argv, mainVars, globVars, sigVars, childVars, histVars>>

\* errno = 0; fcntl(fd, F_GETFD); if (errno) return errno;
CheckFd ==
    /\ Alive /\ pc = "fcntl"
    /\ IF fd \notin OpenFds THEN Exit(EBADF) ELSE Goto("setpgid")
    /\ UNCHANGED <<argv, mainVars, globVars, sigVars, childVars, histVars>>

\* if (!foreground) setpgid(0, 0);
SetPgid ==
    /\ Alive /\ pc = "setpgid"
    /\ own_group' = (own_group \/ ~foreground)
    /\ Goto("install_cleanup")
    /\ UNCHANGED <<argv, fd, timeout_secs, forkret, wait_result, status,
                   status_type, rec, globVars, sigVars, childVars, histVars>>

\* The signals install_cleanup(sigterm) registers and
\* block_cleanup_and_chld(sigterm) blocks besides SIGCHLD.
CleanupSigs(sigterm) == {SIGALRM, SIGINT, SIGQUIT, SIGHUP, SIGTERM, sigterm}

install_cleanup(d, sigterm) ==
    [s \in AllSigs |->
        IF s \in CleanupSigs(sigterm) THEN SigAction(d, s, "cleanup")[s] ELSE d[s]]

InstallCleanup ==
    /\ Alive /\ pc = "install_cleanup"
    /\ disp' = install_cleanup(disp, term_signal)
    /\ Goto("ign_tty")
    /\ UNCHANGED <<argv, mainVars, globVars, blocked, cleanup_set, pending, timer,
                   woken, childVars, histVars>>

\* signal(SIGTTIN, SIG_IGN); signal(SIGTTOU, SIG_IGN);
IgnoreTty ==
    /\ Alive /\ pc = "ign_tty"
    /\ disp' = SigAction(SigAction(disp, SIGTTIN, "ign"), SIGTTOU, "ign")
    /\ Goto("install_sigchld")
    /\ UNCHANGED <<argv, mainVars, globVars, blocked, cleanup_set, pending, timer,
                   woken, childVars, histVars>>

\* sigprocmask(SIG_UNBLOCK, {sig}, NULL)
unblock_signal(mask, sig) == mask \ {sig}

\* install_sigchld(): handler chld for SIGCHLD, and SIGCHLD unblocked.
InstallSigchld ==
    /\ Alive /\ pc = "install_sigchld"
    /\ disp' = SigAction(disp, SIGCHLD, "chld")
    /\ blocked' = unblock_signal(blocked, SIGCHLD)
    /\ Goto("clock_start")
    /\ UNCHANGED <<argv, mainVars, globVars, cleanup_set, pending, timer, woken,
                   childVars, histVars>>

\* clock_gettime(CLOCK_MONOTONIC, &start_time); if (result == -1) return 1;
ClockStart ==
    /\ Alive /\ pc = "clock_start"
    /\ \E ok \in BOOLEAN : IF ok THEN Goto("fork") ELSE Exit(1)
    /\ UNCHANGED <<argv, mainVars, globVars, sigVars, childVars, histVars>>

\* fork(): the child exists from here on; the parent has not yet stored
\* the pid.  Failure returns -1.
Fork ==
    /\ Alive /\ pc = "fork"
    /\ \E ok \in BOOLEAN :
         IF ok THEN /\ forkret' = ChildPid
                    /\ cpc' = "c_signal"
                    /\ cfd' = TRUE
               ELSE /\ forkret' = -1
                    /\ UNCHANGED <<cpc, cfd>>
    /\ Goto("assign_pid")
    /\ UNCHANGED <<argv, fd, timeout_secs, own_group, wait_result, status,
                   status_type, rec, globVars, sigVars, cstatus, cend, desc, histVars>>

\* monitored_pid = fork(); (the store) and the branch on it.
AssignPid ==
    /\ Alive /\ pc = "assign_pid"
    /\ monitored_pid' = forkret
    /\ IF forkret = -1 THEN Goto("fork_failed") ELSE Goto("unblock_alrm")
    /\ UNCHANGED <<argv, mainVars, timed_out, sigVars, childVars, histVars>>

\* perror("fork system call failed"); return 2;
ForkFailed ==
    /\ Alive /\ pc = "fork_failed"
    /\ Exit(2)
    /\ UNCHANGED <<argv, mainVars, globVars, sigVars, childVars, histVars>>

(***************************************************************************)
(* kill(2) and the handlers.                                                *)
(*                                                                         *)
(* A signal that is not blocked when it is generated is delivered at once  *)
(* (its handler runs in the same step); a blocked one stays pending until  *)
(* sigsuspend installs the saved mask.  Handlers run atomically.           *)
(***************************************************************************)
\* The child as it is, and the child terminated by exit(val) (kind "exit")
\* or by signal val (kind "signal").
SameChild == [cpc |-> cpc, cstatus |-> cstatus, cend |-> cend]
Ended(kind, val, core) ==
    [cpc |-> "zombie",
     cstatus |-> IF kind = "exit" THEN W_EXITCODE(val) ELSE W_TERMSIG(val, core),
     cend |-> [kind |-> kind, val |-> val, core |-> core]]

\* The states the default action of s can leave the child in.
DefaultDeaths(s) ==
    IF DefaultAction(s) = "term" THEN {Ended("signal", s, FALSE)}
    ELSE IF DefaultAction(s) = "core"
         THEN {Ended("signal", s, c) : c \in BOOLEAN}
    ELSE {SameChild}

\* The states signal s can leave the child in.  Before exec the child runs
\* this program's image: the dispositions it inherited at fork (SIGUSR1 is
\* still default there) and its own copy of monitored_pid, which is 0, so
\* cleanup takes its _exit(128 + sig) branch.  After exec the program may
\* catch or ignore every signal but SIGKILL.  A ptrace-stopped child holds
\* every signal but SIGKILL.
KillChild(s) ==
    IF cpc \notin LiveStates \/ s = 0 THEN {SameChild}
    ELSE IF s = SIGKILL THEN {Ended("signal", SIGKILL, FALSE)}
    ELSE IF cpc = "tstopped" THEN {SameChild}
    ELSE IF cpc \in PreExec THEN
        IF s # SIGUSR1 /\ disp[s] = "cleanup"
        THEN {Ended("exit", 128 + (IF s = SIGALRM THEN term_signal ELSE s), FALSE)}
        ELSE IF s # SIGUSR1 /\ disp[s] \in {"ign", "chld"} THEN {SameChild}
        ELSE DefaultDeaths(s)
    ELSE {SameChild} \cup DefaultDeaths(s)

\* The mask in force: inside sigsuspend it is the saved mask.
EffMask == IF pc = "sigsuspend" THEN cleanup_set ELSE blocked

\* A handler that ran inside sigsuspend makes it return.
Wake == woken' = (woken \/ pc = "sigsuspend")

\* SIGCHLD generated for the supervisor while pend is pending: it stays
\* pending if blocked; otherwise chld runs, which has no effect of its own.
PostChld(pend) == IF SIGCHLD \in EffMask THEN pend \cup {SIGCHLD} ELSE pend

\* kill(where, s) performed by a handler of the supervisor; pend is the
\* supervisor's pending set before the call.
Kill(where, s, by, pend) ==
    /\ \E o \in (IF "child" \in Targets(where) THEN KillChild(s) ELSE {SameChild}) :
         /\ cpc' = o.cpc
         /\ cstatus' = o.cstatus
         /\ cend' = o.cend
         /\ pending' = (IF o.cpc = "zombie" /\ cpc # "zombie" THEN PostChld(pend) ELSE pend)
                \cup (IF "self" \in Targets(where) /\ s # 0 THEN {s} ELSE {})
    /\ desc' = IF /\ "desc" \in Targets(where) /\ desc = "alive" /\ s # 0
                  /\ DefaultAction(s) \in {"term", "core"}
               THEN "dead" ELSE desc
    /\ sent' = sent \cup {[sig |-> s, by |-> by, to |-> where,
                           live |-> cpc \in LiveStates,
                           reaped |-> cpc = "reaped"]}

\* send_sig(where, sig): a group send first ignores sig in the sender.
send_sig(where, sig, by, pend) ==
    /\ disp' = IF where = 0 THEN SigAction(disp, sig, "ign") ELSE disp
    /\ Kill(where, sig, by, pend)

\* cleanup without the assignment of line 144: the alarm is forwarded but
\* timed_out is left as it was.
cleanup_NoFlag(sig, pend) ==
    LET sig2 == IF sig = SIGALRM THEN term_signal ELSE sig IN
    /\ timed_out' = timed_out
    /\ IF monitored_pid # 0
       THEN /\ send_sig(monitored_pid, sig2,
                        IF sig = SIGALRM THEN "alarm" ELSE "ext", pend)
            /\ Wake
            /\ UNCHANGED <<pc, exited>>
       ELSE /\ HandlerExit(128 + sig2)
            /\ pending' = pend
            /\ UNCHANGED <<disp, woken, cpc, cstatus, cend, desc, sent>>

\* cleanup with the assignment of line 144 outside the test of line 143:
\* every handled signal sets timed_out.
cleanup_FlagAlways(sig, pend) ==
    LET sig2 == IF sig = SIGALRM THEN term_signal ELSE sig IN
    /\ timed_out' = 1
    /\ IF monitored_pid # 0
       THEN /\ send_sig(monitored_pid, sig2,
                        IF sig = SIGALRM THEN "alarm" ELSE "ext", pend)
            /\ Wake
            /\ UNCHANGED <<pc, exited>>
       ELSE /\ HandlerExit(128 + sig2)
            /\ pending' = pend
            /\ UNCHANGED <<disp, woken, cpc, cstatus, cend, desc, sent>>

\* cleanup(sig)
cleanup(sig, pend) ==
    LET sig2 == IF sig = SIGALRM THEN term_signal ELSE sig IN
    /\ timed_out' = IF sig = SIGALRM THEN 1 ELSE timed_out
    /\ IF monitored_pid # 0
       THEN /\ send_sig(monitored_pid, sig2,
                        IF sig = SIGALRM THEN "alarm" ELSE "ext", pend)
            /\ Wake
            /\ UNCHANGED <<pc, exited>>
       ELSE /\ HandlerExit(128 + sig2)
            /\ pending' = pend
            /\ UNCHANGED <<disp, woken, cpc, cstatus, cend, desc, sent>>

\* A chld that collects the terminated child itself.
chld_Reaps(pend) ==
    /\ pending' = pend
    /\ Wake
    /\ cpc' = IF cpc = "zombie" THEN "reaped" ELSE cpc
    /\ UNCHANGED <<pc, exited, timed_out, disp, cstatus, cend, desc, sent>>

\* chld(sig): empty body.
chld(pend) ==
    /\ pending' = pend
    /\ Wake
    /\ UNCHANGED <<pc, exited, timed_out, disp, cpc, cstatus, cend, desc, sent>>

\* handle_usr1(sig, info, _): kill(monitored_pid, info->si_value.sival_int)
handle_usr1(val, pend) ==
    /\ Kill(monitored_pid, val, "usr1", pend)
    /\ Wake
    /\ UNCHANGED <<pc, exited, timed_out, disp>>

\* SIG_IGN, or a default action of "ignore": the signal is discarded.
Discard(pend) ==
    /\ pending' = pend
    /\ UNCHANGED <<pc, exited, timed_out, disp, woken, cpc, cstatus, cend, desc, sent>>

\* SIG_DFL: terminate, or discard.
Default(s, pend) ==
    IF DefaultAction(s) \in {"term", "core"}
    THEN /\ Die(s)
         /\ pending' = pend
         /\ UNCHANGED <<timed_out, disp, woken, cpc, cstatus, cend, desc, sent>>
    ELSE Discard(pend)

\* Signal s, with si_value val, acts on the supervisor according to its
\* disposition; pend is what else is pending.
Handle(s, val, pend) ==
    CASE disp[s] = "cleanup" -> cleanup(s, pend)
      [] disp[s] = "chld" -> chld(pend)
      [] disp[s] = "usr1" -> handle_usr1(val, pend)
      [] disp[s] = "ign" -> Discard(pend)
      [] disp[s] = "dfl" -> Default(s, pend)

\* Signal s is generated for the supervisor: pending if blocked, handled
\* otherwise.
Generate(s, val) ==
    IF s \in EffMask
    THEN /\ pending' = pending \cup {s}
         /\ UNCHANGED <<pc, exited, timed_out, disp, woken, cpc, cstatus, cend, desc, sent>>
    ELSE Handle(s, val, pending)

\* After the reap loop the blocked signals are never unblocked again.
Reporting == pc \in {"clock_end", "classify", "getrusage", "write", "return"}

\* A signal that would stay pending until the supervisor exits changes
\* nothing the supervisor does or writes; its arrival is not a step.
NeverDelivered(s) == s \in EffMask /\ Reporting

\* The kernel delivers a pending signal that sigsuspend has unblocked.
Deliver(s) ==
    /\ Alive /\ s \in pending /\ s \notin EffMask
    /\ Handle(s, 0, pending \ {s})
    /\ UNCHANGED <<argv, mainVars, monitored_pid, blocked, cleanup_set, timer,
                   cfd, expiredLive, execd, nExt, nUsr1>>

(***************************************************************************)
(* The environment: other processes and the timer.                          *)
(***************************************************************************)
\* Another process sends a termination-class signal to the supervisor.
ExtSignal(s) ==
    /\ Alive /\ nExt + nUsr1 < MaxSig /\ ~NeverDelivered(s)
    /\ Generate(s, 0)
    /\ nExt' = nExt + 1
    /\ UNCHANGED <<argv, mainVars, monitored_pid, blocked, cleanup_set, timer,
                   cfd, expiredLive, execd, nUsr1>>

\* Another process queues SIGUSR1 with payload n.
Usr1Signal(n) ==
    /\ Alive /\ nExt + nUsr1 < MaxSig /\ ~NeverDelivered(SIGUSR1)
    /\ Generate(SIGUSR1, n)
    /\ nUsr1' = nUsr1 + 1
    /\ UNCHANGED <<argv, mainVars, monitored_pid, blocked, cleanup_set, timer,
                   cfd, expiredLive, execd, nExt>>

\* The one-shot timer armed by settimeout expires.
TimerFire ==
    /\ Alive /\ timer = "armed" /\ ~NeverDelivered(SIGALRM)
    /\ timer' = "fired"
    /\ Generate(SIGALRM, 0)
    /\ expiredLive' = (cpc \in LiveStates)
    /\ UNCHANGED <<argv, mainVars, monitored_pid, blocked, cleanup_set,
                   cfd, execd, nExt, nUsr1>>

(***************************************************************************)
(* main, parent side after fork.                                            *)
(***************************************************************************)
\* unblock_signal(SIGALRM);
UnblockAlrm ==
    /\ Alive /\ pc = "unblock_alrm"
    /\ blocked' = unblock_signal(blocked, SIGALRM)
    /\ Goto("sigaction_usr1")
    /\ UNCHANGED <<argv, mainVars, globVars, disp, cleanup_set, pending, timer,
                   woken, childVars, histVars>>

\* sigaction(SIGUSR1, {handle_usr1, SA_SIGINFO}, NULL);
InstallUsr1 ==
    /\ Alive /\ pc = "sigaction_usr1"
    /\ disp' = SigAction(disp, SIGUSR1, "usr1")
    /\ Goto("settimeout")
    /\ UNCHANGED <<argv, mainVars, globVars, blocked, cleanup_set, pending, timer,
                   woken, childVars, histVars>>

\* A settimeout that arms nothing.
settimeout_Unarmed ==
    /\ Alive /\ pc = "settimeout"
    /\ Goto("block")
    /\ UNCHANGED <<argv, mainVars, globVars, sigVars, childVars, histVars>>

\* settimeout(true): timer_settime, or the alarm() fallback; either way one
\* SIGALRM after timeout_secs.
settimeout ==
    /\ Alive /\ pc = "settimeout"
    /\ timer' = "armed"
    /\ Goto("block")
    /\ UNCHANGED <<argv, mainVars, globVars, disp, blocked, cleanup_set, pending,
                   woken, childVars, histVars>>

\* block_cleanup_and_chld without line 225: SIGCHLD is left unblocked.
block_cleanup_only ==
    /\ Alive /\ pc = "block"
    /\ cleanup_set' = blocked
    /\ blocked' = (blocked \cup CleanupSigs(term_signal)) \ Uncatchable
    /\ Goto("waitpid")
    /\ UNCHANGED <<argv, mainVars, globVars, disp, pending, timer, woken,
                   childVars, histVars>>

\* block_cleanup_and_chld(term_signal, &cleanup_set);
block_cleanup_and_chld ==
    /\ Alive /\ pc = "block"
    /\ cleanup_set' = blocked
    /\ blocked' = (blocked \cup CleanupSigs(term_signal) \cup {SIGCHLD}) \ Uncatchable
    /\ Goto("waitpid")
    /\ UNCHANGED <<argv, mainVars, globVars, disp, pending, timer, woken,
                   childVars, histVars>>

\* wait_result = waitpid(monitored_pid, &status, WNOHANG): the child's
\* termination status (which reaps it), a ptrace-stop of the child, 0 while
\* it runs, or -1 when the call fails.
Waitpid ==
    /\ Alive /\ pc = "waitpid"
    /\ \/ /\ cpc = "zombie"
          /\ wait_result' = monitored_pid
          /\ status' = cstatus
          /\ cpc' = "reaped"
          /\ Goto("clock_end")
       \/ /\ cpc = "tstopped"
          /\ wait_result' = monitored_pid
          /\ status' = cstatus
          /\ cpc' = cpc
          /\ Goto("clock_end")
       \/ /\ cpc \in LiveStates \ {"tstopped"}
          /\ wait_result' = 0
          /\ UNCHANGED <<status, cpc>>
          /\ Goto("call_sigsuspend")
       \/ /\ wait_result' = -1
          /\ UNCHANGED <<status, cpc>>
          /\ Goto("clock_end")
    /\ UNCHANGED <<argv, fd, timeout_secs, own_group, forkret, status_type, rec,
                   globVars, sigVars, cstatus, cend, cfd, desc, histVars>>

\* sigsuspend(&cleanup_set) is entered: the mask becomes cleanup_set and the
\* supervisor is suspended, in one step.  Until then the mask of line 328 is
\* in force.
SigsuspendEnter ==
    /\ Alive /\ pc = "call_sigsuspend"
    /\ Goto("sigsuspend")
    /\ UNCHANGED <<argv, mainVars, globVars, sigVars, childVars, histVars>>

\* sigsuspend(&cleanup_set) returns once a handler has run.
SigsuspendReturn ==
    /\ Alive /\ pc = "sigsuspend" /\ woken /\ pending \ cleanup_set = {}
    /\ woken' = FALSE
    /\ Goto("waitpid")
    /\ UNCHANGED <<argv, mainVars, globVars, disp, blocked, cleanup_set, pending,
                   timer, childVars, histVars>>

\* clock_gettime(CLOCK_MONOTONIC, &end_time); the result is not examined.
ClockEnd ==
    /\ Alive /\ pc = "clock_end"
    /\ Goto("classify")
    /\ UNCHANGED <<argv, mainVars, globVars, sigVars, childVars, histVars>>

\* Lines 336-353 without the assignment of line 351: a status that is neither
\* an exit nor a signal keeps the value waitpid stored.
Classified_Raw(wr, st) ==
    IF wr < 0 THEN [type |-> "unknown", value |-> -1]
    ELSE IF WIFEXITED(st) THEN [type |-> "exited", value |-> WEXITSTATUS(st)]
    ELSE IF WIFSIGNALED(st)
         THEN [type |-> IF WCOREDUMP(st) THEN "core_dump" ELSE "killed",
               value |-> WTERMSIG(st)]
    ELSE [type |-> "unknown", value |-> st]

\* The (status_type, status) that lines 336-353 compute.
Classified(wr, st) ==
    IF wr < 0 THEN [type |-> "unknown", value |-> -1]
    ELSE IF WIFEXITED(st) THEN [type |-> "exited", value |-> WEXITSTATUS(st)]
    ELSE IF WIFSIGNALED(st)
         THEN [type |-> IF WCOREDUMP(st) THEN "core_dump" ELSE "killed",
               value |-> WTERMSIG(st)]
    ELSE [type |-> "unknown", value |-> -1]

Classify ==
    /\ Alive /\ pc = "classify"
    /\ status_type' = Classified(wait_result, status).type
    /\ status' = Classified(wait_result, status).value
    /\ Goto("getrusage")
    /\ UNCHANGED <<argv, fd, timeout_secs, own_group, forkret, wait_result, rec,
                   globVars, sigVars, childVars, histVars>>

\* result = getrusage(RUSAGE_CHILDREN, &rusage); if (result == -1) return 1;
GetRusage ==
    /\ Alive /\ pc = "getrusage"
    /\ \E ok \in BOOLEAN : IF ok THEN Goto("write") ELSE Exit(1)
    /\ UNCHANGED <<argv, mainVars, globVars, sigVars, childVars, histVars>>

\* What the i-th DPRINTF writes.
Field(i) ==
    CASE i = 1 -> "{"
      [] i = 2 -> IF timed_out # 0 THEN "true" ELSE "false"
      [] i = 3 -> status_type
      [] i = 4 -> status
      [] i = NFields -> "}"
      [] OTHER -> "counter"

\* Status main returns when a dprintf fails (the DPRINTF macro).
WriteFailStatus == 1

\* A DPRINTF whose failure ends the run with status 0 instead of 1.
Write_Return0 ==
    /\ Alive /\ pc = "write"
    /\ \E ok \in BOOLEAN :
         IF ok THEN /\ rec' = Append(rec, Field(Len(rec) + 1))
                    /\ IF Len(rec) + 1 = NFields THEN Goto("return") ELSE Goto("write")
               ELSE /\ rec' = rec
                    /\ Exit(0)
    /\ UNCHANGED <<argv, fd, timeout_secs, own_group, forkret, wait_result, status,
                   status_type, globVars, sigVars, childVars, histVars>>

\* A DPRINTF whose result is not examined: after a failed dprintf, which
\* writes nothing of the field, main goes on with the next one.
Write_Unchecked ==
    /\ Alive /\ pc = "write"
    /\ \E ok \in BOOLEAN :
         /\ rec' = Append(rec, IF ok THEN Field(Len(rec) + 1) ELSE "")
         /\ IF Len(rec) + 1 = NFields THEN Goto("return") ELSE Goto("write")
    /\ UNCHANGED <<argv, fd, timeout_secs, own_group, forkret, wait_result, status,
                   status_type, globVars, sigVars, childVars, histVars>>

\* One DPRINTF(fd, ...): a failed dprintf returns 1.
Write ==
    /\ Alive /\ pc = "write"
    /\ \E ok \in BOOLEAN :
         IF ok THEN /\ rec' = Append(rec, Field(Len(rec) + 1))
                    /\ IF Len(rec) + 1 = NFields THEN Goto("return") ELSE Goto("write")
               ELSE /\ rec' = rec
                    /\ Exit(WriteFailStatus)
    /\ UNCHANGED <<argv, fd, timeout_secs, own_group, forkret, wait_result, status,
                   status_type, globVars, sigVars, childVars, histVars>>

\* return 0;
Return0 ==
    /\ Alive /\ pc = "return"
    /\ Exit(0)
    /\ UNCHANGED <<argv, mainVars, globVars, sigVars, childVars, histVars>>

(***************************************************************************)
(* The child: lines 295-302, then the executed program.                     *)
(***************************************************************************)
\* The child's state changes to a terminated or ptrace-stopped one: the
\* kernel posts SIGCHLD to the supervisor.
ChildBecomes(o) ==
    /\ cpc' = o.cpc
    /\ cstatus' = o.cstatus
    /\ cend' = o.cend
    /\ pending' = PostChld(pending)
    /\ woken' = (woken \/ (pc = "sigsuspend" /\ SIGCHLD \notin EffMask))

\* signal(SIGTTIN, SIG_DFL); signal(SIGTTOU, SIG_DFL);
ChildResetTty ==
    /\ Alive /\ cpc = "c_signal"
    /\ cpc' = "c_close"
    /\ UNCHANGED <<argv, pc, exited, mainVars, globVars, sigVars, cstatus, cend, cfd,
                   desc, histVars>>

\* The child's step of line 299 without the close: the descriptor stays open
\* across exec.
ChildClose_Keeps ==
    /\ Alive /\ cpc = "c_close"
    /\ cpc' = "c_exec"
    /\ UNCHANGED <<argv, pc, exited, mainVars, globVars, sigVars, cstatus, cend, cfd,
                   desc, histVars>>

\* close(fd);
ChildClose ==
    /\ Alive /\ cpc = "c_close"
    /\ cpc' = "c_exec"
    /\ cfd' = FALSE
    /\ UNCHANGED <<argv, pc, exited, mainVars, globVars, sigVars, cstatus, cend, desc,
                   histVars>>

\* Status the child returns when execlp fails: perror("execlp"); return 1;
ExecFailStatus == 1

\* execlp("/ATO/runner", ...): on success the program runs, on failure the
\* child returns ExecFailStatus from main.
ChildExec ==
    /\ Alive /\ cpc = "c_exec"
    /\ \E ok \in BOOLEAN :
         /\ IF ok THEN cpc' = "running" /\ UNCHANGED <<cstatus, cend, pending, woken>>
                  ELSE ChildBecomes(Ended("exit", ExecFailStatus, FALSE))
         /\ execd' = ok
    /\ UNCHANGED <<argv, pc, exited, mainVars, globVars, disp, blocked, cleanup_set,
                   timer, cfd, desc, sent, expiredLive, nExt, nUsr1>>

\* The executed program exits with code c.
ChildExit(c) ==
    /\ Alive /\ cpc = "running"
    /\ ChildBecomes(Ended("exit", c, FALSE))
    /\ UNCHANGED <<argv, pc, exited, mainVars, globVars, disp, blocked, cleanup_set,
                   timer, cfd, desc, histVars>>

\* The executed program is terminated by a signal it raised itself.
ChildFault(s, core) ==
    /\ Alive /\ cpc = "running"
    /\ ChildBecomes(Ended("signal", s, core))
    /\ UNCHANGED <<argv, pc, exited, mainVars, globVars, disp, blocked, cleanup_set,
                   timer, cfd, desc, histVars>>

\* The executed program starts a descendant in its process group.
ChildSpawn ==
    /\ Alive /\ cpc = "running" /\ desc = "none"
    /\ desc' = "alive"
    /\ UNCHANGED <<argv, pc, exited, mainVars, globVars, sigVars, cpc, cstatus, cend,
                   cfd, histVars>>

\* The executed program makes its parent its tracer and stops: a stop that
\* waitpid reports without WUNTRACED.
ChildTraceStop ==
    /\ Alive /\ cpc = "running"
    /\ ChildBecomes([cpc |-> "tstopped", cstatus |-> W_STOPCODE(SIGSTOP),
                     cend |-> cend])
    /\ UNCHANGED <<argv, pc, exited, mainVars, globVars, disp, blocked, cleanup_set,
                   timer, cfd, desc, histVars>>

Next ==
    \/ CheckArgc \/ ParseFd \/ ParseTimeout \/ CheckRange \/ CheckFd
    \/ SetPgid \/ InstallCleanup \/ IgnoreTty \/ InstallSigchld \/ ClockStart
    \/ Fork \/ AssignPid \/ ForkFailed
    \/ UnblockAlrm \/ InstallUsr1 \/ settimeout \/ block_cleanup_and_chld
    \/ Waitpid \/ SigsuspendEnter \/ SigsuspendReturn \/ ClockEnd \/ Classify \/ GetRusage \/ Write
    \/ Return0
    \/ \E s \in ExtSigs : ExtSignal(s)
    \/ \E n \in Payloads : Usr1Signal(n)
    \/ TimerFire
    \/ \E s \in AllSigs : Deliver(s)
    \/ ChildResetTty \/ ChildClose \/ ChildExec
    \/ \E c \in ExitCodes : ChildExit(c)
    \/ \E s \in FaultSigs, core \in BOOLEAN : ChildFault(s, core)
    \/ ChildSpawn \/ ChildTraceStop

Spec == Init /\ [][Next]_vars

(***************************************************************************)
(* Vocabulary of the properties.                                            *)
(***************************************************************************)
\* All NFields fields of the record are on the descriptor.
RecordWritten == Len(rec) = NFields

\* The fields of the record, once written.
RecTimedOut == rec[2]
RecType == rec[3]
RecValue == rec[4]

\* The alarm handler performed its kill / did so while the child was running.
AlarmHandled == \E k \in sent : k.by = "alarm"
AlarmHitLive == \E k \in sent : k.by = "alarm" /\ k.live

\* No signal of another process has acted on the supervisor.
NoExternal == \A k \in sent : k.by = "alarm"

\* waitpid has returned the child's termination status.
Reaped == cpc = "reaped"

\* Where the supervisor is, or was when it ended.
At == IF Alive THEN pc ELSE exited.at

\* C1 as stated: if the child is still running when the deadline expires and
\* no external signal is sent to the supervisor, the termination signal is
\* sent to the child and the record written is (true, killed, 9).  (Stated
\* for the runs in which the wait returns the child's status.)
C1_Claim ==
    (expiredLive /\ nExt + nUsr1 = 0 /\ Reaped /\ RecordWritten)
        => /\ AlarmHandled
           /\ RecTimedOut = "true"
           /\ RecType = "killed"
           /\ RecValue = term_signal

\* C1 amended: the alarm handler sends exactly the configured termination
\* signal to the monitored pid and sets timed_out; when its kill reaches the
\* child while it is still running, no external signal has acted on the
\* supervisor and the wait returns the child's status, the record written
\* is (true, killed, term_signal).
C1_Deadline ==
    /\ \A k \in sent : k.by = "alarm" => k.sig = term_signal /\ k.to = ChildPid
    /\ AlarmHandled => timed_out = 1
    /\ (AlarmHitLive /\ NoExternal /\ Reaped /\ RecordWritten)
         => /\ RecTimedOut = "true"
            /\ RecType = "killed"
            /\ RecValue = term_signal

C1_Witness ==
    /\ AlarmHitLive /\ NoExternal /\ Reaped /\ RecordWritten
    /\ expiredLive
    /\ RecTimedOut = "true" /\ RecType = "killed" /\ RecValue = SIGKILL

\* C2 as stated: a child that exits normally with code c before the deadline
\* expires is reported as (false, exited, c).  (Stated for the runs in which
\* no other process signals the supervisor and the wait returns the child's
\* status.)
C2_Claim ==
    (cend.kind = "exit" /\ ~expiredLive /\ nExt + nUsr1 = 0 /\ Reaped /\ RecordWritten)
        => /\ RecTimedOut = "false"
           /\ RecType = "exited"
           /\ RecValue = cend.val

\* C2 amended: a child that exits normally with code c and is reaped is
\* reported with status_type exited and status_value c under every
\* interleaving; timed_out is false exactly when the alarm handler has not
\* run before the reap (it can run between the child's exit and the reap).
C2_Exit ==
    (cend.kind = "exit" /\ Reaped /\ RecordWritten)
        => /\ RecType = "exited"
           /\ RecValue = cend.val
           /\ (RecTimedOut = "false") = ~AlarmHandled
           /\ (RecTimedOut = "true") = AlarmHandled

C2_Witness ==
    /\ cend.kind = "exit" /\ cend.val = 255 /\ execd /\ Reaped /\ RecordWritten
    /\ timer = "fired" /\ ~expiredLive
    /\ RecType = "exited" /\ RecValue = 255 /\ RecTimedOut = "true"

DigitString(s) ==
    Len(s) > 0 /\ \A i \in 1..Len(s) : s[i] >= ZeroChar /\ s[i] <= NineChar

RECURSIVE Strip(_)
\* s without its leading zeros.
Strip(s) == IF Len(s) > 0 /\ s[1] = ZeroChar THEN Strip(Tail(s)) ELSE s

TrueZero(s) == DigitString(s) /\ Strip(s) = <<>>

TrueAbove60(s) ==
    /\ DigitString(s)
    /\ LET u == Strip(s) IN
       \/ Len(u) >= 3
       \/ Len(u) = 2 /\ (u[1] - ZeroChar) * 10 + (u[2] - ZeroChar) > MAX_TIMEOUT_SECS

TrueIn1to60(s) == DigitString(s) /\ ~TrueZero(s) /\ ~TrueAbove60(s)

\* The descriptor a digit string names is open in the caller.
TrueOpenFd(s) ==
    DigitString(s) /\ Len(Strip(s)) <= 1
    /\ (IF Strip(s) = <<>> THEN 0 ELSE Strip(s)[1] - ZeroChar) \in OpenFds

\* fork has not been reached.
NotForked == cpc = "none" /\ forkret = 0 /\ monitored_pid = 0

\* C4 as stated: a wrong argument count, a non-numeric argument or a timeout
\* of 0 or above 60 ends the run with exit status 2, an invalid descriptor
\* ends it with the error code of the descriptor check; in none of these
\* runs is fork reached or a byte written.
C4_Claim ==
    LET badArgs == \/ Len(argv) # 2
                   \/ ~DigitString(argv[1]) \/ ~DigitString(argv[2])
                   \/ TrueZero(argv[2]) \/ TrueAbove60(argv[2])
        badFd == ~badArgs /\ ~TrueOpenFd(argv[1])
    IN  /\ badArgs => /\ NotForked
                      /\ rec = <<>>
                      /\ (~Alive /\ exited.kind = "exit") => exited.val = 2
        /\ badFd => /\ NotForked
                    /\ rec = <<>>
                    /\ (~Alive /\ exited.kind = "exit") => exited.val = EBADF

\* The run has proceeded past the validation of the timeout.
PastValidation == At \notin {"argc", "parse_fd", "parse_timeout", "range"}

\* C5 as stated: for a timeout argument made of decimal digits, the run
\* proceeds past validation only if its decimal value lies in [1, 60], and
\* every digit string above 60 is rejected with exit status 2.
C5_Claim ==
    (Len(argv) = 2 /\ DigitString(argv[2]))
        => /\ PastValidation => TrueIn1to60(argv[2])
           /\ (TrueAbove60(argv[2]) /\ ~Alive /\ exited.kind = "exit")
                => exited.val = 2 /\ ~PastValidation

\* C6 as stated: once the alarm handler has signalled a running child, no
\* descendant of the child is left alive.
C6_Claim == AlarmHitLive => desc # "alive"

\* C7 as stated: no handler performs a kill on the monitored pid after
\* waitpid has returned the child's status.
C7_Claim == \A k \in sent : ~k.reaped

\* C8 as stated: from the moment monitored_pid is set until the child is
\* reaped, a SIGUSR1 carrying n sends signal n and nothing else to the
\* monitored process, does not end the supervisor and leaves timed_out
\* unchanged.
C8_Claim ==
    [][\A n \in Payloads :
         (Usr1Signal(n) /\ monitored_pid = ChildPid /\ ~Reaped)
            => /\ exited' = exited
               /\ timed_out' = timed_out
               /\ \E k \in sent' : /\ k.by = "usr1" /\ k.sig = n /\ k.to = ChildPid
                                   /\ sent' \ sent \subseteq {k}]_vars

\* C9 as stated: the status the child returns when exec fails is one that no
\* executed program produces, so no record of a child that ran equals the
\* record of an exec failure.
C9_Claim ==
    (execd /\ Reaped /\ RecordWritten)
        => ~(RecType = "exited" /\ RecValue = ExecFailStatus)

\* The reap loop was left without the child's termination status: the wait
\* failed, or it returned a status that is neither an exit nor a signal.
Anomalous ==
    At \in {"clock_end", "classify", "getrusage", "write", "return"} /\ ~Reaped

\* C10: an anomalous wait outcome does not end the supervisor; it goes on
\* to report status_type unknown and status_value -1, with timed_out as the
\* alarm handler left it, and returns 0 with the whole record unless
\* getrusage or a write fails or a signal kills it.
C10_Unknown ==
    Anomalous =>
        /\ At \in {"getrusage", "write", "return"}
             => status_type = "unknown" /\ status = -1
        /\ Len(rec) >= 2 => rec[2] = (IF AlarmHandled THEN "true" ELSE "false")
        /\ Len(rec) >= 3 => rec[3] = "unknown"
        /\ Len(rec) >= 4 => rec[4] = -1
        /\ ~Alive => \/ exited.kind = "signal"
                     \/ /\ exited.kind = "exit" /\ exited.val = 1
                        /\ exited.at \in {"getrusage", "write"}
                     \/ /\ exited = [kind |-> "exit", val |-> 0, at |-> "return"]
                        /\ RecordWritten

C10_Witness ==
    /\ ~Alive /\ RecordWritten /\ ~Reaped
    /\ wait_result = ChildPid /\ cpc = "tstopped"
    /\ RecType = "unknown" /\ RecValue = -1

\* Positions at which main ends the run for an argument or validation
\* error, a fork failure, and a resource-usage failure.
ValidationSites == {"argc", "parse_fd", "parse_timeout", "range", "fcntl"}

\* C11 as stated: the exit status of a write failure differs from the exit
\* status of every validation error, of a fork failure and of a getrusage
\* failure.
C11_Claim ==
    (~Alive /\ exited.kind = "exit"
       /\ exited.at \in ValidationSites \cup {"fork_failed", "getrusage"})
        => exited.val # WriteFailStatus

\* The positions of the reap loop (lines 330-331).
ReapLoop == {"waitpid", "call_sigsuspend", "sigsuspend"}

\* main has left the reap loop.
LoopLeft == At \in {"clock_end", "classify", "getrusage", "write", "return"}

Waitable == cpc \in {"zombie", "tstopped"}

\* C13: around the reap loop the cleanup signals and SIGCHLD are blocked
\* except inside sigsuspend, whose mask lets SIGCHLD through; so whenever the
\* supervisor is about to suspend or is suspended while the child has
\* already terminated, the child's SIGCHLD is pending or a handler has
\* already run in this sigsuspend: the suspension ends and waitpid is
\* called again.
C13_NoLostWakeup ==
    /\ (Alive /\ pc \in {"waitpid", "call_sigsuspend"})
         => (CleanupSigs(term_signal) \cup {SIGCHLD}) \ Uncatchable \subseteq blocked
    /\ (Alive /\ pc \in ReapLoop) => SIGCHLD \notin cleanup_set
    /\ (Alive /\ pc = "call_sigsuspend" /\ Waitable) => SIGCHLD \in pending
    /\ (Alive /\ pc = "sigsuspend" /\ Waitable) => (woken \/ SIGCHLD \in pending)

\* The child terminated between waitpid returning 0 and sigsuspend.
C13_Witness ==
    /\ Alive /\ pc = "call_sigsuspend" /\ cpc = "zombie" /\ wait_result = 0
    /\ SIGCHLD \in pending /\ cend.kind = "exit" /\ timer = "armed"

\* fork has created the child.
Forked == cpc # "none"

\* C14 as stated: once the child is forked the supervisor reaps it and then
\* exits, whatever the child does.  Read on a finished run that no other
\* process signalled and in which no call of the supervisor failed: the
\* supervisor has not returned 0 without having reaped the child.
C14_Claim ==
    (Forked /\ ~Alive /\ nExt + nUsr1 = 0 /\ wait_result >= 0
       /\ exited.kind = "exit" /\ exited.val = 0) => Reaped

\* C15 as stated: the supervisor's termination handler takes its
\* _exit(128 + sig) branch only while no child exists; once fork has created
\* the child the supervisor never ends that way.
C15_Claim == exited.kind = "_exit" => ~Forked

\* Positions of main up to and including the start timestamp.
PreFork == {"argc", "parse_fd", "parse_timeout", "range", "fcntl", "setpgid",
            "install_cleanup", "ign_tty", "install_sigchld", "clock_start"}

\* The end timestamp has been taken.
EndTaken == At \in {"classify", "getrusage", "write", "return"}

\* The termination and child-notification handlers are installed.
HandlersInstalled ==
    /\ \A s \in CleanupSigs(term_signal) \ Uncatchable : disp[s] = "cleanup"
    /\ disp[SIGALRM] = "cleanup"
    /\ disp[SIGCHLD] = "chld"

Report(reaped, end) ==
    IF ~reaped THEN [type |-> "unknown", value |-> -1]
    ELSE IF end.kind = "exit" THEN [type |-> "exited", value |-> end.val]
    ELSE IF end.core THEN [type |-> "core_dump", value |-> end.val]
    ELSE [type |-> "killed", value |-> end.val]

\* Largest signal number of the table below.
MaxSigNo == 64

\* C17: the (status_type, status_value) main computes and writes is the
\* prescribed function of how the child ended: (exited, code), (core_dump,
\* signal), (killed, signal), and (unknown, -1) for anything else; and lines
\* 336-353 compute that function for every exit code, every terminating
\* signal with and without core, every stop status and a failed wait (a
\* property of the function alone, evaluated in the initial states).
C17_Classification ==
    /\ At \in {"getrusage", "write", "return"}
         => /\ status_type = Report(Reaped, cend).type
            /\ status = Report(Reaped, cend).value
    /\ Len(rec) >= 3 => rec[3] = Report(Reaped, cend).type
    /\ Len(rec) >= 4 => rec[4] = Report(Reaped, cend).value
    /\ pc = "argc" =>
         /\ \A c \in 0..255 :
              Classified(ChildPid, W_EXITCODE(c)) = [type |-> "exited", value |-> c]
         /\ \A s \in 1..MaxSigNo :
              /\ Classified(ChildPid, W_TERMSIG(s, TRUE))
                   = [type |-> "core_dump", value |-> s]
              /\ Classified(ChildPid, W_TERMSIG(s, FALSE))
                   = [type |-> "killed", value |-> s]
              /\ Classified(ChildPid, W_STOPCODE(s)) = [type |-> "unknown", value |-> -1]
              /\ Classified(-1, W_TERMSIG(s, FALSE)) = [type |-> "unknown", value |-> -1]

C17_Witness ==
    /\ RecordWritten /\ Reaped /\ cend = [kind |-> "signal", val |-> SIGSEGV, core |-> TRUE]
    /\ RecType = "core_dump" /\ RecValue = SIGSEGV /\ RecTimedOut = "false"

\* The child was running when the supervisor forwarded external signal s
\* to it, and it was terminated by signal s.
KilledByForwarded(s) ==
    /\ cend.kind = "signal" /\ cend.val = s
    /\ \E k \in sent : k.by = "ext" /\ k.live /\ k.sig = s /\ k.to = ChildPid

\* C18 as stated: a child killed by a forwarded external signal s before
\* the deadline is reported timed_out = false, status_type = killed,
\* status_value = s.
C18_Claim ==
    \A s \in ExtSigs :
      (KilledByForwarded(s) /\ ~expiredLive /\ Reaped /\ RecordWritten)
        => RecTimedOut = "false" /\ RecType = "killed" /\ RecValue = s

\* The supervisor's handler for external signal s runs.
ExtHandled(s) ==
    /\ disp[s] = "cleanup" /\ monitored_pid = ChildPid
    /\ (ExtSignal(s) /\ s \notin EffMask) \/ Deliver(s)

\* C18: the handler of an external termination signal s sends s, and only
\* s, to the monitored pid and leaves timed_out unchanged; timed_out is set
\* only after the timer has expired; a child killed by a forwarded signal s
\* is reported with status_value = s, status_type killed or core_dump as
\* the core flag says, and timed_out = true exactly when the alarm handler
\* also ran before the record was written.
C18_Forward ==
    /\ [][\A s \in ExtSigs \ {SIGKILL} :
            ExtHandled(s)
              => /\ timed_out' = timed_out
                 /\ \E k \in sent' : /\ k.by = "ext" /\ k.sig = s /\ k.to = ChildPid
                                     /\ sent' \ sent \subseteq {k}]_vars
    /\ [](timed_out # 0 => timer = "fired" /\ AlarmHandled)
    /\ [](\A s \in ExtSigs :
            (KilledByForwarded(s) /\ Reaped /\ RecordWritten)
              => /\ RecValue = s
                 /\ RecType = (IF cend.core THEN "core_dump" ELSE "killed")
                 /\ RecTimedOut = (IF AlarmHandled THEN "true" ELSE "false"))

C18_Witness ==
    /\ KilledByForwarded(SIGTERM) /\ Reaped /\ RecordWritten /\ timer = "armed"
    /\ RecTimedOut = "false" /\ RecType = "killed" /\ RecValue = SIGTERM

\* The child has reached execlp (it runs the program, or exec has failed).
PastClose == cpc \in {"c_exec", "running", "tstopped"} \/ execd
               \/ (cend.kind = "exit" /\ cend.val = ExecFailStatus)

C20_ZeroIffComplete ==
    /\ []((~Alive /\ exited.kind = "exit") => (exited.val = 0 <=> RecordWritten))
    /\ []((~Alive /\ exited.kind = "_exit") => rec = <<>> /\ exited.val # 0)
    /\ [](RecordWritten => rec[1] = "{" /\ rec[NFields] = "}")
    /\ [][rec' # rec
            => /\ Alive /\ pc = "write" /\ exited' = exited
               /\ Len(rec) < NFields
               /\ rec' = Append(rec, Field(Len(rec) + 1))]_vars
    /\ [][(pc = "write" /\ exited' # exited /\ exited'.kind = "exit")
            => /\ rec' = rec /\ Len(rec) < NFields
               /\ exited'.val = WriteFailStatus /\ WriteFailStatus # 0]_vars
    /\ [][~Alive => rec' = rec /\ exited' = exited]_vars

\* The last write failed: all fields but the closing one were written.
C20_Witness ==
    /\ ~Alive /\ exited = [kind |-> "exit", val |-> WriteFailStatus, at |-> "write"]
    /\ Len(rec) = NFields - 1 /\ Reaped

====
